---- MODULE Spec2Model ----
(***************************************************************************)
(* A model of the Gemini text-to-speech client (src/gemini_tts.py): the    *)
(* GeminiTTS constructor, the audio persister save_wave_file, the two      *)
(* synthesis operations single_speaker_tts and multi_speaker_tts, content  *)
(* expansion (generate_content, generate_and_speak), and the web front-end *)
(* (src/web_server.py), with the remote service as a nondeterministic      *)
(* environment.  Spec is the client as a caller drives it; SpecWave is the *)
(* audio persister called directly; SpecWeb is the web server handling one *)
(* request at a time; SpecRace is get_or_create_tts_client run by the      *)
(* threads of concurrent requests.                                         *)
(*                                                                         *)
(* Python values are represented as follows.                               *)
(*   Optional[T]   a sequence of length 0 (None) or 1 (the value)           *)
(*   str (text)    a sequence of one-character strings                      *)
(*   str (names, credentials, file names)  a TLA+ string, "" is empty       *)
(*   bytes         a sequence of integers in 0..255                         *)
(*   dict          a sequence of entries in insertion order, keys distinct  *)
(*   exception     a record [type, msg]                                     *)
(* The host is little-endian (wave swaps sample bytes only on big-endian   *)
(* hosts).                                                                 *)
(***************************************************************************)
EXTENDS Integers, Sequences, FiniteSets, TLC

VARIABLES
    env,        \* os.environ.get('GOOGLE_API_KEY'): Optional[str]
    clients,    \* the GeminiTTS instances constructed so far, each with the
                \* credential genai.Client() found in the environment
    files,      \* the file system: file name -> Optional[bytes]
    inv,        \* the arguments of the invocation in progress
    calls,      \* the outbound calls issued by the invocation
    response,   \* what the remote service answered to its outbound call
    saved,      \* the save_wave_file calls made by the latest invocation
    result,     \* how the latest invocation ended
    pc,         \* where the caller is: "idle", "calling" (blocked in the
                \* outbound call) or "done" (the invocation has ended)
    tts_clients, \* web_server.tts_clients: client_id -> Optional[instance],
                \* an instance being its position in clients
    request,    \* the HTTP request the server is handling: Optional
    http,       \* the HTTP response to it: Optional
    threads     \* the threads running get_or_create_tts_client

vars == <<env, clients, files, inv, calls, response, saved, result, pc,
          tts_clients, request, http, threads>>

\* the state of the web front-end
webvars == <<tts_clients, request, http, threads>>

----------------------------------------------------------------------------
(* Bounds of the model.                                                    *)

MaxClients == 1
MaxThreads == 2
MaxTemp == 2
MaxSpeakers == 3
MaxCandidates == 2
MaxParts == 2

----------------------------------------------------------------------------
(* Python values.                                                          *)

None == <<>>
Some(x) == <<x>>

\* bool(s) of an Optional[str]: None and "" are falsy
TruthyStr(o) == o # None /\ o[1] # ""

\* bool(l) of an Optional[list] or Optional[bytes]: None and empty are falsy
TruthyList(o) == o # None /\ o[1] # <<>>

\* bool(o) of an Optional[object]: only None is falsy
TruthyObj(o) == o # None

Whitespace == {" ", "\t", "\n"}

\* text.strip() == ""
IsBlank(text) == \A i \in 1..Len(text) : text[i] \in Whitespace

----------------------------------------------------------------------------
(* GeminiTTS.VOICES and the defaults of save_wave_file.                    *)

VOICES ==
    << "Zephyr", "Puck", "Charon", "Kore", "Fenrir", "Leda", "Orus", "Aoede",
       "Callirrhoe", "Autonoe", "Enceladus", "Iapetus", "Umbriel", "Algieba",
       "Despina", "Erinome", "Algenib", "Rasalgethi", "Laomedeia", "Achernar",
       "Alnilam", "Schedar", "Gacrux", "Pulcherrima", "Achird",
       "Zubenelgenubi", "Vindemiatrix", "Sadachbia", "Sadaltager", "Sulafat" >>

DefaultChannels == 1
DefaultRate == 24000
DefaultSampleWidth == 2

\* the speaker limit of multi_speaker_tts
SpeakerLimit == 2

----------------------------------------------------------------------------
(* The exceptions the code raises.                                         *)

MissingCredentialError ==
    [type |-> "ValueError",
     msg  |-> <<"API key must be provided either as parameter or GOOGLE_API_KEY environment variable">>]

InvalidVoiceSingle(voice_name) ==
    [type |-> "ValueError",
     msg  |-> <<"Voice '", voice_name, "' not supported. Choose from: VOICES">>]

InvalidVoiceMulti(voice, speaker) ==
    [type |-> "ValueError",
     msg  |-> <<"Voice '", voice, "' for speaker '", speaker,
                "' not supported. Choose from: VOICES">>]

TooManySpeakersError ==
    [type |-> "ValueError", msg |-> <<"Maximum 2 speakers supported">>]

NoAudioDataError ==
    [type |-> "RuntimeError",
     msg  |-> <<"Failed to generate audio: No audio data in response">>]

EmptyAudioDataError ==
    [type |-> "RuntimeError",
     msg  |-> <<"Failed to generate audio: Empty audio data">>]

\* speaker_names[1] of a one-entry dict (lines 214-219)
IndexErrorRaised == [type |-> "IndexError", msg |-> <<"list index out of range">>]

GenerationFailedError ==
    [type |-> "Exception", msg |-> <<"Failed to generate content">>]

\* an error of the remote call itself, raised by client.models.generate_content
TransportError == [type |-> "APIError", msg |-> <<"remote call failed">>]

----------------------------------------------------------------------------
(* The audio persister: wave.open(filename, "wb"), the three setters and   *)
(* writeframes, as the wave module of the standard library performs them.  *)

\* struct.pack of an unsigned little-endian integer of k bytes
LE(n, k) == [i \in 1..k |-> (n \div (256 ^ (i - 1))) % 256]

\* the ASCII tags of the container
TagRIFF == <<82, 73, 70, 70>>
TagWAVE == <<87, 65, 86, 69>>
TagFmt  == <<102, 109, 116, 32>>
TagData == <<100, 97, 116, 97>>

\* a header whose bits-per-sample field holds the width in bytes
WaveHeader_widthInBytes(channels, rate, sample_width, datalength) ==
    TagRIFF \o LE(36 + datalength, 4) \o TagWAVE \o TagFmt \o LE(16, 4)
      \o LE(1, 2) \o LE(channels, 2) \o LE(rate, 4)
      \o LE(channels * rate * sample_width, 4)
      \o LE(channels * sample_width, 2) \o LE(sample_width, 2)
      \o TagData \o LE(datalength, 4)

\* Wave_write._write_header followed by _patchheader: the 44-byte header of
\* a PCM file of datalength bytes of samples
WaveHeader(channels, rate, sample_width, datalength) ==
    TagRIFF \o LE(36 + datalength, 4) \o TagWAVE \o TagFmt \o LE(16, 4)
      \o LE(1, 2) \o LE(channels, 2) \o LE(rate, 4)
      \o LE(channels * rate * sample_width, 4)
      \o LE(channels * sample_width, 2) \o LE(sample_width * 8, 2)
      \o TagData \o LE(datalength, 4)

\* open(filename, "ab"): an existing file keeps its content
open_ab(fs, filename) ==
    IF fs[filename] = None THEN [fs EXCEPT ![filename] = Some(<<>>)] ELSE fs

\* open(filename, "wb"): the file exists afterwards and is empty
open_wb(fs, filename) == [fs EXCEPT ![filename] = Some(<<>>)]

\* GeminiTTS.save_wave_file: the file system after the call
save_wave_file(fs, filename, pcm_data, channels, rate, sample_width) ==
    LET opened == open_wb(fs, filename)
    IN  [opened EXCEPT ![filename] =
            Some(opened[filename][1]
                   \o WaveHeader(channels, rate, sample_width, Len(pcm_data))
                   \o pcm_data)]

----------------------------------------------------------------------------
(* Request validation and request shaping.                                 *)

\* a membership test that lets an empty voice name through
InVOICES_emptyOk(voice_name) ==
    voice_name = "" \/ \E i \in 1..Len(VOICES) : VOICES[i] = voice_name

\* voice_name in self.VOICES: list membership by string equality
InVOICES(voice_name) == \E i \in 1..Len(VOICES) : VOICES[i] = voice_name

\* lines 81-85 of single_speaker_tts: the exception raised, if any
ValidateSingle(voice_name) ==
    IF ~InVOICES(voice_name) THEN Some(InvalidVoiceSingle(voice_name))
    ELSE None

\* the loop of lines 136-141: the first entry, in insertion order, whose
\* voice is not in VOICES
FirstInvalid(speakers) ==
    LET bad == {i \in 1..Len(speakers) : ~InVOICES(speakers[i].voice)}
    IN  IF bad = {} THEN 0
        ELSE CHOOSE i \in bad : \A j \in bad : i <= j

\* the speaker count compared with >= instead of >
ValidateMulti_offByOne(speakers) ==
    IF FirstInvalid(speakers) # 0
    THEN Some(InvalidVoiceMulti(speakers[FirstInvalid(speakers)].voice,
                                speakers[FirstInvalid(speakers)].speaker))
    ELSE IF Len(speakers) >= SpeakerLimit THEN Some(TooManySpeakersError)
    ELSE None

\* the speaker count checked before the voices
ValidateMulti_countFirst(speakers) ==
    IF Len(speakers) > SpeakerLimit THEN Some(TooManySpeakersError)
    ELSE IF FirstInvalid(speakers) # 0
    THEN Some(InvalidVoiceMulti(speakers[FirstInvalid(speakers)].voice,
                                speakers[FirstInvalid(speakers)].speaker))
    ELSE None

\* lines 135-144 of multi_speaker_tts: the exception raised, if any
ValidateMulti(speakers) ==
    IF FirstInvalid(speakers) # 0
    THEN Some(InvalidVoiceMulti(speakers[FirstInvalid(speakers)].voice,
                                speakers[FirstInvalid(speakers)].speaker))
    ELSE IF Len(speakers) > SpeakerLimit THEN Some(TooManySpeakersError)
    ELSE None

\* the entries taken in reverse order
speaker_configs_reversed(speakers) ==
    [i \in 1..Len(speakers) |->
        [speaker    |-> speakers[Len(speakers) + 1 - i].speaker,
         voice_name |-> speakers[Len(speakers) + 1 - i].voice]]

\* lines 149-161: one SpeakerVoiceConfig per entry, in insertion order
speaker_configs(speakers) ==
    [i \in 1..Len(speakers) |->
        [speaker    |-> speakers[i].speaker,
         voice_name |-> speakers[i].voice]]

\* the synthesis request of single_speaker_tts (lines 89-102)
SingleRequest(client, text, voice_name, model) ==
    [kind       |-> "synthesis",
     credential |-> client.credential,
     model      |-> model,
     contents   |-> text,
     modalities |-> <<"AUDIO">>,
     voice_name |-> Some(voice_name),
     speaker_voice_configs |-> None]

\* the synthesis request of multi_speaker_tts (lines 163-174)
MultiRequest(client, text, speakers, model) ==
    [kind       |-> "synthesis",
     credential |-> client.credential,
     model      |-> model,
     contents   |-> text,
     modalities |-> <<"AUDIO">>,
     voice_name |-> None,
     speaker_voice_configs |-> Some(speaker_configs(speakers))]

----------------------------------------------------------------------------
(* Response unwrapping (lines 104-115 and 176-187).                        *)

\* unwrapping without the test of lines 114-115
Unwrap_noEmptyTest(resp) ==
    IF ~TruthyList(resp.candidates)
    THEN [error |-> Some(NoAudioDataError), audio_data |-> <<>>]
    ELSE IF ~TruthyObj(resp.candidates[1][1].content)
    THEN [error |-> Some(NoAudioDataError), audio_data |-> <<>>]
    ELSE IF ~TruthyList(resp.candidates[1][1].content[1].parts)
    THEN [error |-> Some(NoAudioDataError), audio_data |-> <<>>]
    ELSE IF ~TruthyObj(resp.candidates[1][1].content[1].parts[1][1].inline_data)
    THEN [error |-> Some(NoAudioDataError), audio_data |-> <<>>]
    ELSE LET audio_data ==
                 resp.candidates[1][1].content[1].parts[1][1].inline_data[1].data
         IN  IF audio_data = None
             THEN [error |-> None, audio_data |-> <<>>]
             ELSE [error |-> None, audio_data |-> audio_data[1]]

\* unwrapping that reads the last part of the first candidate, parts[-1]
Unwrap_lastPart(resp) ==
    IF ~TruthyList(resp.candidates)
    THEN [error |-> Some(NoAudioDataError), audio_data |-> <<>>]
    ELSE IF ~TruthyObj(resp.candidates[1][1].content)
    THEN [error |-> Some(NoAudioDataError), audio_data |-> <<>>]
    ELSE IF ~TruthyList(resp.candidates[1][1].content[1].parts)
    THEN [error |-> Some(NoAudioDataError), audio_data |-> <<>>]
    ELSE LET parts == resp.candidates[1][1].content[1].parts[1]
         IN  IF ~TruthyObj(parts[Len(parts)].inline_data)
             THEN [error |-> Some(NoAudioDataError), audio_data |-> <<>>]
             ELSE LET audio_data == parts[Len(parts)].inline_data[1].data
                  IN  IF ~TruthyList(audio_data)
                      THEN [error |-> Some(EmptyAudioDataError),
                            audio_data |-> <<>>]
                      ELSE [error |-> None, audio_data |-> audio_data[1]]

\* unwrapping that falls back to the next part when the first part has no
\* inline payload
Unwrap_nextPart(resp) ==
    IF ~TruthyList(resp.candidates)
    THEN [error |-> Some(NoAudioDataError), audio_data |-> <<>>]
    ELSE IF ~TruthyObj(resp.candidates[1][1].content)
    THEN [error |-> Some(NoAudioDataError), audio_data |-> <<>>]
    ELSE IF ~TruthyList(resp.candidates[1][1].content[1].parts)
    THEN [error |-> Some(NoAudioDataError), audio_data |-> <<>>]
    ELSE LET parts == resp.candidates[1][1].content[1].parts[1]
             k == IF ~TruthyObj(parts[1].inline_data) /\ Len(parts) > 1
                  THEN 2 ELSE 1
         IN  IF ~TruthyObj(parts[k].inline_data)
             THEN [error |-> Some(NoAudioDataError), audio_data |-> <<>>]
             ELSE LET audio_data == parts[k].inline_data[1].data
                  IN  IF ~TruthyList(audio_data)
                      THEN [error |-> Some(EmptyAudioDataError),
                            audio_data |-> <<>>]
                      ELSE [error |-> None, audio_data |-> audio_data[1]]

\* the outcome of unwrapping: the exception raised, if any, and audio_data
Unwrap(resp) ==
    IF ~TruthyList(resp.candidates)
    THEN [error |-> Some(NoAudioDataError), audio_data |-> <<>>]
    ELSE IF ~TruthyObj(resp.candidates[1][1].content)
    THEN [error |-> Some(NoAudioDataError), audio_data |-> <<>>]
    ELSE IF ~TruthyList(resp.candidates[1][1].content[1].parts)
    THEN [error |-> Some(NoAudioDataError), audio_data |-> <<>>]
    ELSE IF ~TruthyObj(resp.candidates[1][1].content[1].parts[1][1].inline_data)
    THEN [error |-> Some(NoAudioDataError), audio_data |-> <<>>]
    ELSE LET audio_data ==
                 resp.candidates[1][1].content[1].parts[1][1].inline_data[1].data
         IN  IF ~TruthyList(audio_data)
             THEN [error |-> Some(EmptyAudioDataError), audio_data |-> <<>>]
             ELSE [error |-> None, audio_data |-> audio_data[1]]

----------------------------------------------------------------------------
(* Content expansion (generate_content, lines 206-238).                    *)

\* bool(d) of an Optional[dict]: None and {} are falsy
TruthyDict(o) == o # None /\ o[1] # <<>>

\* str.strip()
RECURSIVE LStrip(_)
LStrip(text) ==
    IF text # <<>> /\ text[1] \in Whitespace THEN LStrip(Tail(text)) ELSE text

RECURSIVE RStrip(_)
RStrip(text) ==
    IF text # <<>> /\ text[Len(text)] \in Whitespace
    THEN RStrip(SubSeq(text, 1, Len(text) - 1))
    ELSE text

Strip(text) == RStrip(LStrip(text))

\* lines 208-227: the prompt, or the exception raised while building it;
\* the dialogue template names speaker_names[0] and speaker_names[1]
BuildPrompt(topic, speakers) ==
    IF TruthyDict(speakers)
    THEN IF Len(speakers[1]) < 2
         THEN [error |-> Some(IndexErrorRaised),
               prompt |-> [template |-> "none", topic |-> topic, names |-> <<>>]]
         ELSE [error |-> None,
               prompt |-> [template |-> "dialogue", topic |-> topic,
                           names |-> <<speakers[1][1].speaker,
                                       speakers[1][2].speaker>>]]
    ELSE [error |-> None,
          prompt |-> [template |-> "explanation", topic |-> topic,
                      names |-> <<>>]]

\* the text-generation request (lines 230-233)
TextRequest(client, prompt, model) ==
    [kind       |-> "text",
     credential |-> client.credential,
     model      |-> model,
     contents   |-> prompt,
     modalities |-> <<>>,
     voice_name |-> None,
     speaker_voice_configs |-> None]

\* a reading of the response that speaks an empty transcript when the
\* response carries no text
ExtractText_noRaise(resp) ==
    IF resp = None \/ ~TruthyList(resp[1].text)
    THEN [error |-> None, text |-> <<>>]
    ELSE [error |-> None, text |-> Strip(resp[1].text[1])]

\* lines 235-238: the transcript, or the exception raised
ExtractText(resp) ==
    IF resp = None \/ ~TruthyList(resp[1].text)
    THEN [error |-> Some(GenerationFailedError), text |-> <<>>]
    ELSE [error |-> None, text |-> Strip(resp[1].text[1])]

----------------------------------------------------------------------------
(* The inputs the operations are exercised with.                           *)

Credentials == {"k1", "k2"}

\* the api_key argument of the constructor
ApiKeyArgs == {None, Some("")} \cup {Some(k) : k \in Credentials}

\* the environment the process may be started in
EnvAtStart == {None, Some(""), Some("k1")}

HelloWorld == <<"H", "e", "l", "l", "o", " ", "w", "o", "r", "l", "d">>

Texts == {<<>>, <<" ", "\t">>, HelloWorld}

VoiceArgs == {"Kore", "Puck", "kore", "X", ""}

Filenames == {"a.wav", "b.wav"}

TTSModel == "gemini-2.5-flash-preview-tts"

SpeakerNames == {"Jane", "Joe", "Ann"}
MapVoices == {"Kore", "X"}

Entry(s, v) == [speaker |-> s, voice |-> v]

JaneJoe == <<Entry("Jane", "Kore"), Entry("Joe", "Puck")>>
ABC == <<Entry("A", "X"), Entry("B", "Y"), Entry("C", "Z")>>
LowerCase == <<Entry("Jane", "kore")>>

\* the dicts of 0 to MaxSpeakers entries that give every speaker one voice
Cast == <<"Jane", "Joe", "Ann", "Bob", "Eve", "Dan">>
CastMaps ==
    {[i \in 1..n |-> Entry(Cast[i], v)] : n \in 0..MaxSpeakers, v \in MapVoices}

\* dicts of at most MaxSpeakers entries: the keys of a dict are distinct
SpeakerMaps ==
    {JaneJoe, ABC, LowerCase} \cup CastMaps \cup
    UNION { {m \in [1..n -> {Entry(s, v) : s \in SpeakerNames, v \in MapVoices}] :
                \A i, j \in 1..n : i # j => m[i].speaker # m[j].speaker}
            : n \in 0..MaxSpeakers }

\* audio payloads the remote service may return
PayloadA == <<0, 1, 2, 3>>
PayloadB == <<7>>

Blob(d) == [data |-> d]
Part(i) == [inline_data |-> i]
Content(p) == [parts |-> p]
Candidate(c) == [content |-> c]
Response(cs) == [candidates |-> cs]

\* what the first part of a content may be
FirstParts ==
    {Part(None)} \cup
    {Part(Some(Blob(d))) : d \in {None, Some(<<>>), Some(PayloadA), Some(PayloadB)}}

\* a part after the first one carries audio of its own
LaterPart == Part(Some(Blob(Some(PayloadB))))

Repeat(x, n) == [i \in 1..n |-> x]

PartLists ==
    {None, Some(<<>>)} \cup
    {Some(<<p>> \o Repeat(LaterPart, n)) : p \in FirstParts, n \in 0..(MaxParts - 1)}

FirstCandidates ==
    {Candidate(None)} \cup {Candidate(Some(Content(pl))) : pl \in PartLists}

\* a candidate after the first one carries audio of its own
LaterCandidate == Candidate(Some(Content(Some(<<LaterPart>>))))

Responses ==
    {Response(None), Response(Some(<<>>))} \cup
    {Response(Some(<<c>> \o Repeat(LaterCandidate, n))) :
        c \in FirstCandidates, n \in 0..(MaxCandidates - 1)}

GenModel == "gemini-2.0-flash"

Topics == {"space exploration"}

\* the speakers argument of generate_content and generate_and_speak
SpeakerArgs ==
    {None, Some(<<>>), Some(<<Entry("Jane", "Kore")>>), Some(JaneJoe),
     Some(<<Entry("Jane", "Kore"), Entry("Joe", "X")>>), Some(ABC)}
    \cup {Some([i \in 1..n |-> Entry(Cast[i], "Kore")]) : n \in 3..MaxSpeakers}

Dialogue == <<"J", "a", "n", "e", ":", " ", "H", "i">>

\* the text of a text-generation response
ResponseTexts ==
    {None, Some(<<>>), Some(<<" ", "\n">>), Some(Dialogue),
     Some(<<" ">> \o Dialogue \o <<"\n">>)}

\* the text-generation call either raises or returns a response
TextOutcomes ==
    {[raised |-> TRUE, response |-> None],
     [raised |-> FALSE, response |-> None]} \cup
    {[raised |-> FALSE, response |-> Some([text |-> t])] : t \in ResponseTexts}

\* the remote call either raises or returns a response
RemoteOutcomes ==
    {[raised |-> TRUE, response |-> Response(None)]} \cup
    {[raised |-> FALSE, response |-> r] : r \in Responses}

----------------------------------------------------------------------------
(* The operations.                                                         *)

\* str(hash(api_key)), line 25: the hash is taken to be free of
\* collisions on the credentials of the model
client_id(api_key) == <<"hash", api_key>>

\* tts_clients = {} (line 19)
NoCache == [id \in {client_id(k) : k \in Credentials} |-> None]

\* no thread is handling a request
NoThreads == <<>>

NoInv ==
    [op |-> "none", self |-> 0, api_key |-> None, env_before |-> None,
     instances_before |-> 0, text |-> <<>>, voice_name |-> "",
     speakers |-> <<>>, output_file |-> "", before |-> None,
     topic |-> "", speakers_arg |-> None]

Returned(v) == [status |-> "returned", value |-> Some(v), error |-> None]
Raised(e) == [status |-> "raised", value |-> None, error |-> Some(e)]
NoResult == [status |-> "none", value |-> None, error |-> None]

\* a constructor that only refuses an unset variable, not an empty one
GeminiTTS_init_emptyEnvOk(api_key, e) ==
    IF TruthyStr(api_key)
    THEN [env |-> api_key, error |-> None, credential |-> api_key]
    ELSE IF e = None
    THEN [env |-> e, error |-> Some(MissingCredentialError), credential |-> None]
    ELSE [env |-> e, error |-> None, credential |-> e]

\* GeminiTTS.__init__ (lines 36-44): the environment afterwards, the
\* exception raised, if any, and the credential of the client constructed
GeminiTTS_init(api_key, e) ==
    IF TruthyStr(api_key)
    THEN [env |-> api_key, error |-> None, credential |-> api_key]
    ELSE IF ~TruthyStr(e)
    THEN [env |-> e, error |-> Some(MissingCredentialError), credential |-> None]
    ELSE [env |-> e, error |-> None, credential |-> e]

\* GeminiTTS(api_key)
Construct(api_key) ==
    LET r == GeminiTTS_init(api_key, env)
    IN  /\ pc = "idle"
        /\ r.error # None \/ Len(clients) < MaxClients
        /\ env' = r.env
        /\ clients' = IF r.error # None THEN clients
                      ELSE Append(clients, [credential |-> r.credential])
        /\ inv' = [NoInv EXCEPT !.op = "init", !.api_key = api_key,
                                !.env_before = env,
                                !.instances_before = Len(clients)]
        /\ result' = IF r.error # None THEN Raised(r.error[1])
                     ELSE Returned("GeminiTTS")
        /\ pc' = "done"
        /\ UNCHANGED <<files, calls, response, saved>>
        /\ UNCHANGED webvars

\* GeminiTTS.single_speaker_tts, lines 81-102: validation, then the
\* outbound call, in which the caller blocks
single_speaker_tts(c, text, voice_name, output_file) ==
    /\ pc = "idle"
    /\ c \in 1..Len(clients)
    /\ inv' = [NoInv EXCEPT !.op = "single_speaker_tts", !.self = c,
                            !.text = text, !.voice_name = voice_name,
                            !.output_file = output_file,
                            !.before = files[output_file]]
    /\ IF ValidateSingle(voice_name) # None
       THEN /\ result' = Raised(ValidateSingle(voice_name)[1])
            /\ pc' = "done"
            /\ UNCHANGED calls
       ELSE /\ calls' = <<SingleRequest(clients[c], text, voice_name, TTSModel)>>
            /\ pc' = "calling"
            /\ UNCHANGED result
    /\ UNCHANGED <<env, clients, files, response, saved>>
    /\ UNCHANGED webvars

\* GeminiTTS.multi_speaker_tts, lines 135-174: validation, then the
\* outbound call, in which the caller blocks
multi_speaker_tts(c, text, speakers, output_file) ==
    /\ pc = "idle"
    /\ c \in 1..Len(clients)
    /\ inv' = [NoInv EXCEPT !.op = "multi_speaker_tts", !.self = c,
                            !.text = text, !.speakers = speakers,
                            !.output_file = output_file,
                            !.before = files[output_file]]
    /\ IF ValidateMulti(speakers) # None
       THEN /\ result' = Raised(ValidateMulti(speakers)[1])
            /\ pc' = "done"
            /\ UNCHANGED calls
       ELSE /\ calls' = <<MultiRequest(clients[c], text, speakers, TTSModel)>>
            /\ pc' = "calling"
            /\ UNCHANGED result
    /\ UNCHANGED <<env, clients, files, response, saved>>
    /\ UNCHANGED webvars

\* a caller that repeats the synthesis call once when it raised
synthesis_response_retry(remote) ==
    /\ pc = "calling"
    /\ inv.op \in {"single_speaker_tts", "multi_speaker_tts",
                   "generate_and_speak"}
    /\ calls[Len(calls)].kind = "synthesis"
    /\ response' = Append(response, remote)
    /\ IF remote.raised /\ Len(response) = Len(calls) - 1
            /\ (Len(calls) = 1 \/ calls[Len(calls) - 1].kind = "text")
       THEN /\ calls' = Append(calls, calls[Len(calls)])
            /\ pc' = "calling"
            /\ UNCHANGED <<files, saved, result>>
       ELSE IF remote.raised
       THEN /\ result' = Raised(TransportError)
            /\ pc' = "done"
            /\ UNCHANGED <<files, saved, calls>>
       ELSE IF Unwrap(remote.response).error # None
       THEN /\ result' = Raised(Unwrap(remote.response).error[1])
            /\ pc' = "done"
            /\ UNCHANGED <<files, saved, calls>>
       ELSE /\ saved' = <<[filename     |-> inv.output_file,
                           pcm_data     |-> Unwrap(remote.response).audio_data,
                           channels     |-> DefaultChannels,
                           rate         |-> DefaultRate,
                           sample_width |-> DefaultSampleWidth]>>
            /\ files' = save_wave_file(files, inv.output_file,
                                       Unwrap(remote.response).audio_data,
                                       DefaultChannels, DefaultRate,
                                       DefaultSampleWidth)
            /\ result' = Returned(inv.output_file)
            /\ pc' = "done"
            /\ UNCHANGED calls
    /\ UNCHANGED <<env, clients, inv>>
    /\ UNCHANGED webvars

\* a caller that opens the output file for writing before it unwraps the
\* response
synthesis_response_opensFirst(remote) ==
    /\ pc = "calling"
    /\ inv.op \in {"single_speaker_tts", "multi_speaker_tts",
                   "generate_and_speak"}
    /\ calls[Len(calls)].kind = "synthesis"
    /\ response' = Append(response, remote)
    /\ IF remote.raised
       THEN /\ result' = Raised(TransportError)
            /\ UNCHANGED <<files, saved>>
       ELSE IF Unwrap(remote.response).error # None
       THEN /\ result' = Raised(Unwrap(remote.response).error[1])
            /\ files' = open_wb(files, inv.output_file)
            /\ UNCHANGED saved
       ELSE /\ saved' = <<[filename     |-> inv.output_file,
                           pcm_data     |-> Unwrap(remote.response).audio_data,
                           channels     |-> DefaultChannels,
                           rate         |-> DefaultRate,
                           sample_width |-> DefaultSampleWidth]>>
            /\ files' = save_wave_file(files, inv.output_file,
                                       Unwrap(remote.response).audio_data,
                                       DefaultChannels, DefaultRate,
                                       DefaultSampleWidth)
            /\ result' = Returned(inv.output_file)
    /\ pc' = "done"
    /\ UNCHANGED <<env, clients, inv, calls>>
    /\ UNCHANGED webvars

\* lines 104-118 and 176-190: the outbound call raises, or it returns a
\* response that is unwrapped and, when it carries audio, saved
synthesis_response(remote) ==
    /\ pc = "calling"
    /\ inv.op \in {"single_speaker_tts", "multi_speaker_tts",
                   "generate_and_speak"}
    /\ calls[Len(calls)].kind = "synthesis"
    /\ response' = Append(response, remote)
    /\ IF remote.raised
       THEN /\ result' = Raised(TransportError)
            /\ UNCHANGED <<files, saved>>
       ELSE IF Unwrap(remote.response).error # None
       THEN /\ result' = Raised(Unwrap(remote.response).error[1])
            /\ UNCHANGED <<files, saved>>
       ELSE /\ saved' = <<[filename     |-> inv.output_file,
                           pcm_data     |-> Unwrap(remote.response).audio_data,
                           channels     |-> DefaultChannels,
                           rate         |-> DefaultRate,
                           sample_width |-> DefaultSampleWidth]>>
            /\ files' = save_wave_file(files, inv.output_file,
                                       Unwrap(remote.response).audio_data,
                                       DefaultChannels, DefaultRate,
                                       DefaultSampleWidth)
            /\ result' = Returned(inv.output_file)
    /\ pc' = "done"
    /\ UNCHANGED <<env, clients, inv, calls>>
    /\ UNCHANGED webvars

\* GeminiTTS.generate_content, lines 206-233: the prompt, then the
\* text-generation call, in which the caller blocks
generate_content(c, topic, speakers) ==
    /\ pc = "idle"
    /\ c \in 1..Len(clients)
    /\ inv' = [NoInv EXCEPT !.op = "generate_content", !.self = c,
                            !.topic = topic, !.speakers_arg = speakers]
    /\ IF BuildPrompt(topic, speakers).error # None
       THEN /\ result' = Raised(BuildPrompt(topic, speakers).error[1])
            /\ pc' = "done"
            /\ UNCHANGED calls
       ELSE /\ calls' = <<TextRequest(clients[c],
                                      BuildPrompt(topic, speakers).prompt,
                                      GenModel)>>
            /\ pc' = "calling"
            /\ UNCHANGED result
    /\ UNCHANGED <<env, clients, files, response, saved>>
    /\ UNCHANGED webvars

\* GeminiTTS.generate_and_speak, line 263 up to the text-generation call
\* of generate_content, in which the caller blocks
generate_and_speak(c, topic, speakers, output_file) ==
    /\ pc = "idle"
    /\ c \in 1..Len(clients)
    /\ inv' = [NoInv EXCEPT !.op = "generate_and_speak", !.self = c,
                            !.topic = topic, !.speakers_arg = speakers,
                            !.output_file = output_file,
                            !.before = files[output_file]]
    /\ IF BuildPrompt(topic, speakers).error # None
       THEN /\ result' = Raised(BuildPrompt(topic, speakers).error[1])
            /\ pc' = "done"
            /\ UNCHANGED calls
       ELSE /\ calls' = <<TextRequest(clients[c],
                                      BuildPrompt(topic, speakers).prompt,
                                      GenModel)>>
            /\ pc' = "calling"
            /\ UNCHANGED result
    /\ UNCHANGED <<env, clients, files, response, saved>>
    /\ UNCHANGED webvars

\* lines 235-238, and for generate_and_speak lines 264-272 up to the
\* synthesis call: the text-generation call raises, or it returns a
\* response whose text becomes the transcript that is spoken
generation_response(outcome) ==
    /\ pc = "calling"
    /\ inv.op \in {"generate_content", "generate_and_speak"}
    /\ calls[Len(calls)].kind = "text"
    /\ response' = Append(response, outcome)
    /\ IF outcome.raised
       THEN /\ result' = Raised(TransportError)
            /\ pc' = "done"
            /\ UNCHANGED <<inv, calls>>
       ELSE IF ExtractText(outcome.response).error # None
       THEN /\ result' = Raised(ExtractText(outcome.response).error[1])
            /\ pc' = "done"
            /\ UNCHANGED <<inv, calls>>
       ELSE IF inv.op = "generate_content"
       THEN /\ result' = Returned(ExtractText(outcome.response).text)
            /\ pc' = "done"
            /\ UNCHANGED <<inv, calls>>
       ELSE IF TruthyDict(inv.speakers_arg)
       THEN /\ inv' = [inv EXCEPT
                          !.text = ExtractText(outcome.response).text,
                          !.speakers = inv.speakers_arg[1]]
            /\ IF ValidateMulti(inv.speakers_arg[1]) # None
               THEN /\ result' = Raised(ValidateMulti(inv.speakers_arg[1])[1])
                    /\ pc' = "done"
                    /\ UNCHANGED calls
               ELSE /\ calls' = Append(calls,
                              MultiRequest(clients[inv.self],
                                           ExtractText(outcome.response).text,
                                           inv.speakers_arg[1], TTSModel))
                    /\ pc' = "calling"
                    /\ UNCHANGED result
       ELSE /\ inv' = [inv EXCEPT
                          !.text = ExtractText(outcome.response).text,
                          !.voice_name = "Kore"]
            /\ IF ValidateSingle("Kore") # None
               THEN /\ result' = Raised(ValidateSingle("Kore")[1])
                    /\ pc' = "done"
                    /\ UNCHANGED calls
               ELSE /\ calls' = Append(calls,
                              SingleRequest(clients[inv.self],
                                            ExtractText(outcome.response).text,
                                            "Kore", TTSModel))
                    /\ pc' = "calling"
                    /\ UNCHANGED result
    /\ UNCHANGED <<env, clients, files, saved>>
    /\ UNCHANGED webvars

\* the invocation's frame is gone once it has returned or raised: of an
\* invocation only the environment, the instances and the files remain
Return ==
    /\ pc = "done"
    /\ inv' = NoInv
    /\ calls' = <<>>
    /\ response' = None
    /\ saved' = <<>>
    /\ result' = NoResult
    /\ pc' = "idle"
    /\ UNCHANGED <<env, clients, files>>
    /\ UNCHANGED webvars

\* a direct call of GeminiTTS.save_wave_file (lines 59-64)
save_wave_file_call(c, filename, pcm_data, channels, rate, sample_width) ==
    /\ pc = "idle"
    /\ c \in 1..Len(clients)
    /\ inv' = [NoInv EXCEPT !.op = "save_wave_file", !.self = c,
                            !.output_file = filename,
                            !.before = files[filename]]
    /\ saved' = <<[filename     |-> filename,
                   pcm_data     |-> pcm_data,
                   channels     |-> channels,
                   rate         |-> rate,
                   sample_width |-> sample_width]>>
    /\ files' = save_wave_file(files, filename, pcm_data, channels, rate,
                               sample_width)
    /\ result' = Returned("None")
    /\ pc' = "done"
    /\ UNCHANGED <<env, clients, calls, response>>
    /\ UNCHANGED webvars

Init ==
    /\ env \in EnvAtStart
    /\ clients = <<>>
    /\ files = [f \in Filenames |-> None]
    /\ inv = NoInv
    /\ calls = <<>>
    /\ response = None
    /\ saved = <<>>
    /\ result = NoResult
    /\ pc = "idle"
    /\ tts_clients = NoCache
    /\ request = None
    /\ http = None
    /\ threads = NoThreads

Next ==
    \/ \E api_key \in ApiKeyArgs : Construct(api_key)
    \/ \E c \in 1..MaxClients, text \in Texts, voice_name \in VoiceArgs,
          output_file \in Filenames :
            single_speaker_tts(c, text, voice_name, output_file)
    \/ \E c \in 1..MaxClients, text \in Texts, speakers \in SpeakerMaps,
          output_file \in Filenames :
            multi_speaker_tts(c, text, speakers, output_file)
    \/ \E remote \in RemoteOutcomes : synthesis_response(remote)
    \/ \E c \in 1..MaxClients, topic \in Topics, speakers \in SpeakerArgs :
            generate_content(c, topic, speakers)
    \/ \E c \in 1..MaxClients, topic \in Topics, speakers \in SpeakerArgs,
          output_file \in Filenames :
            generate_and_speak(c, topic, speakers, output_file)
    \/ \E outcome \in TextOutcomes : generation_response(outcome)
    \/ Return

Spec == Init /\ [][Next]_vars

----------------------------------------------------------------------------
(* The audio persister on its own: save_wave_file called directly, with    *)
(* the defaults and with other parameters, on files that may exist before. *)

ByteSeqs == {<<>>, <<7>>, <<1, 2, 3>>, PayloadA}

\* (channels, rate, sample_width)
WaveParams == {<<DefaultChannels, DefaultRate, DefaultSampleWidth>>,
               <<2, 44100, 1>>}

\* what may be on disk before the first call
PriorContents == {None, Some(<<>>), Some(<<9, 9, 9>>)}

InitWave ==
    /\ env = Some("k1")
    /\ clients = <<[credential |-> Some("k1")]>>
    /\ files \in [Filenames -> PriorContents]
    /\ inv = NoInv
    /\ calls = <<>>
    /\ response = None
    /\ saved = <<>>
    /\ result = NoResult
    /\ pc = "idle"
    /\ tts_clients = NoCache
    /\ request = None
    /\ http = None
    /\ threads = NoThreads

NextWave ==
    \/ \E filename \in Filenames, pcm_data \in ByteSeqs, p \in WaveParams :
          save_wave_file_call(1, filename, pcm_data, p[1], p[2], p[3])
    \/ Return

SpecWave == InitWave /\ [][NextWave]_vars

----------------------------------------------------------------------------
(* get_or_create_tts_client (web_server.py, lines 22-33) as the threads of *)
(* concurrent requests run it.  The server of app.run handles each request *)
(* in a thread of its own, and nothing in lines 22-33 or in                *)
(* GeminiTTS.__init__ takes a lock, so the threads interleave between any  *)
(* two accesses to tts_clients and os.environ.  Each thread handles one    *)
(* request.                                                                *)

Threads == 1..MaxThreads

\* what get_or_create_tts_client does not touch
outside == <<files, inv, calls, response, saved, result, pc, request, http>>

\* a thread that has not got its request yet
IdleThread == [at |-> "idle", api_key |-> "", self |-> None, ret |-> None]

\* the handler calls get_or_create_tts_client(api_key): line 25
request_arrives(t, api_key) ==
    /\ threads[t].at = "idle"
    /\ threads' = [threads EXCEPT ![t].at = "lookup", ![t].api_key = api_key]
    /\ UNCHANGED <<env, clients, tts_clients>>
    /\ UNCHANGED outside

\* line 27: if client_id not in tts_clients
lookup(t) ==
    /\ threads[t].at = "lookup"
    /\ threads' = [threads EXCEPT ![t].at =
                      IF tts_clients[client_id(threads[t].api_key)] = None
                      THEN "environ" ELSE "return"]
    /\ UNCHANGED <<env, clients, tts_clients>>
    /\ UNCHANGED outside

\* GeminiTTS.__init__, lines 36-37; the api_key of a request is not empty
init_environ(t) ==
    /\ threads[t].at = "environ"
    /\ env' = GeminiTTS_init(Some(threads[t].api_key), env).env
    /\ threads' = [threads EXCEPT ![t].at = "client"]
    /\ UNCHANGED <<clients, tts_clients>>
    /\ UNCHANGED outside

\* GeminiTTS.__init__, line 44: genai.Client() takes the credential from
\* the environment as it is now, or raises (lines 30-31 re-raise)
init_client(t, ok) ==
    /\ threads[t].at = "client"
    /\ IF ok
       THEN /\ clients' = Append(clients, [credential |-> env])
            /\ threads' = [threads EXCEPT ![t].at = "store",
                                          ![t].self = Some(Len(clients) + 1)]
       ELSE /\ threads' = [threads EXCEPT ![t].at = "raised"]
            /\ UNCHANGED clients
    /\ UNCHANGED <<env, tts_clients>>
    /\ UNCHANGED outside

\* line 29: tts_clients[client_id] = the new instance
store(t) ==
    /\ threads[t].at = "store"
    /\ tts_clients' = [tts_clients EXCEPT
                          ![client_id(threads[t].api_key)] = threads[t].self]
    /\ threads' = [threads EXCEPT ![t].at = "return"]
    /\ UNCHANGED <<env, clients>>
    /\ UNCHANGED outside

\* line 33: return tts_clients[client_id]
return_client(t) ==
    /\ threads[t].at = "return"
    /\ threads' = [threads EXCEPT
                      ![t].at = "returned",
                      ![t].ret = tts_clients[client_id(threads[t].api_key)]]
    /\ UNCHANGED <<env, clients, tts_clients>>
    /\ UNCHANGED outside

InitRace ==
    /\ env \in EnvAtStart
    /\ clients = <<>>
    /\ files = [f \in Filenames |-> None]
    /\ inv = NoInv
    /\ calls = <<>>
    /\ response = None
    /\ saved = <<>>
    /\ result = NoResult
    /\ pc = "idle"
    /\ tts_clients = NoCache
    /\ request = None
    /\ http = None
    /\ threads = [t \in Threads |-> IdleThread]

NextRace ==
    \/ \E t \in Threads, api_key \in Credentials : request_arrives(t, api_key)
    \/ \E t \in Threads : lookup(t)
    \/ \E t \in Threads : init_environ(t)
    \/ \E t \in Threads, ok \in BOOLEAN : init_client(t, ok)
    \/ \E t \in Threads : store(t)
    \/ \E t \in Threads : return_client(t)

SpecRace == InitRace /\ [][NextRace]_vars

----------------------------------------------------------------------------
(* The web server (web_server.py) handling one request at a time: the      *)
(* handlers of POST /api/tts/single, /api/tts/multi and /api/generate.     *)
(* A handler runs up to the outbound call it blocks in, and from the       *)
(* outcome of that call on.  calls and response are those of the request;  *)
(* files holds the temporary files, named 1..MaxTemp.                      *)

\* a member of the JSON object: missing, null, or a value
Missing == <<>>
Null == <<None>>
Given(v) == <<Some(v)>>

\* data.get(key, default): an Optional, None being Python's None
Get(field, default) == IF field = Missing THEN Some(default) ELSE field[1]

\* a credential and a topic are one word each, held as one element of the
\* character sequence
Word(chars) == IF chars = <<>> THEN "" ELSE chars[1]

\* request.get_json() raises for a body that is no JSON
BadRequestError ==
    [type |-> "BadRequest",
     msg  |-> <<"400 Bad Request: Failed to decode JSON object">>]

\* data.get on a body that is null or no object, .strip() on a null member
AttributeErrorRaised(what) ==
    [type |-> "AttributeError", msg |-> <<what, " object has no attribute">>]

\* lines 30-31
InitFailedError(e) ==
    [type |-> "Exception",
     msg  |-> <<"Failed to initialize TTS client: ">> \o e.msg]

\* genai.Client() raised
ClientError == [type |-> "Exception", msg |-> <<"client construction failed">>]

\* jsonify(...), status
jsonify(status, success, error, audio_data, generated_text) ==
    [status |-> status, success |-> success, error |-> error,
     audio_data |-> audio_data, generated_text |-> generated_text]

\* an exception handler that answers 200
error_reply_ok(e) == jsonify(200, FALSE, Some(e.msg), None, None)

\* except Exception as e (lines 98-102, 156-160, 220-224)
error_reply(e) == jsonify(500, FALSE, Some(e.msg), None, None)

\* lines 60-70, 114-130, 173-183
required_reply(what) == jsonify(400, FALSE, Some(<<what>>), None, None)

\* lines 55-70, 109-130, 167-183: reading the body and the tests of the
\* required members; the reply, if the handler ends here
Admit(route, body) ==
    LET member == IF route = "generate" THEN body.topic ELSE body.text
    IN  IF body.json = "malformed" THEN Some(error_reply(BadRequestError))
        ELSE IF body.json = "null"
        THEN Some(error_reply(AttributeErrorRaised("'NoneType'")))
        ELSE IF body.json = "array"
        THEN Some(error_reply(AttributeErrorRaised("'list'")))
        ELSE IF Get(body.api_key, <<>>) = None \/ Get(member, <<>>) = None
        THEN Some(error_reply(AttributeErrorRaised("'NoneType'")))
        ELSE IF Strip(Get(body.api_key, <<>>)[1]) = <<>>
        THEN Some(required_reply("API key is required"))
        ELSE IF Strip(Get(member, <<>>)[1]) = <<>>
        THEN Some(required_reply(IF route = "generate"
                                 THEN "Topic is required"
                                 ELSE "Text is required"))
        ELSE IF route = "multi" /\ ~TruthyDict(Get(body.speakers, <<>>))
        THEN Some(required_reply("Speakers configuration is required"))
        ELSE None

\* get_or_create_tts_client(api_key), lines 22-33, run without
\* interruption: the cache, the instances and the environment after it,
\* the exception raised or the instance returned
get_or_create_tts_client(cache, instances, e, api_key, client_ok) ==
    IF cache[client_id(api_key)] # None
    THEN [error |-> None, tts_clients |-> cache, clients |-> instances,
          env |-> e, client |-> cache[client_id(api_key)][1]]
    ELSE LET r == GeminiTTS_init(Some(api_key), e)
         IN  IF r.error # None
             THEN [error |-> Some(InitFailedError(r.error[1])),
                   tts_clients |-> cache, clients |-> instances,
                   env |-> r.env, client |-> 0]
             ELSE IF ~client_ok
             THEN [error |-> Some(InitFailedError(ClientError)),
                   tts_clients |-> cache, clients |-> instances,
                   env |-> r.env, client |-> 0]
             ELSE [error |-> None,
                   tts_clients |-> [cache EXCEPT ![client_id(api_key)] =
                                        Some(Len(instances) + 1)],
                   clients |-> Append(instances, [credential |-> r.credential]),
                   env |-> r.env, client |-> Len(instances) + 1]

TempNames == 1..MaxTemp

\* tempfile.NamedTemporaryFile(suffix='.wav', delete=False): a new, empty
\* file
NamedTemporaryFile(fs, name) == [fs EXCEPT ![name] = Some(<<>>)]

\* base64.b64encode(data).decode('utf-8'): the characters, each by its
\* position in the Base64 alphabet, '=' being position 64
B64Pad == 64

RECURSIVE b64encode(_)
b64encode(data) ==
    IF data = <<>> THEN <<>>
    ELSE IF Len(data) = 1
    THEN <<data[1] \div 4, (data[1] % 4) * 16, B64Pad, B64Pad>>
    ELSE IF Len(data) = 2
    THEN <<data[1] \div 4, (data[1] % 4) * 16 + data[2] \div 16,
           (data[2] % 16) * 4, B64Pad>>
    ELSE <<data[1] \div 4, (data[1] % 4) * 16 + data[2] \div 16,
           (data[2] % 16) * 4 + data[3] \div 64, data[3] % 64>>
         \o b64encode(SubSeq(data, 4, Len(data)))

\* os.unlink(path)
unlink(fs, name) == [fs EXCEPT ![name] = None]

\* the request being handled
Request(route, body, client_ok, tmp) ==
    [route |-> route, body |-> body, client_ok |-> client_ok, tmp |-> tmp,
     cache_before |-> tts_clients, instances_before |-> Len(clients),
     env_before |-> env, files_before |-> files]

\* the members of an admitted body, as the handlers read them
ApiKeyOf(body) == Word(Strip(Get(body.api_key, <<>>)[1]))
TextOf(body) == Strip(Get(body.text, <<>>)[1])
TopicOf(body) == Word(Strip(Get(body.topic, <<>>)[1]))
VoiceOf(body) == Get(body.voice, "Kore")[1]
SpeakersOf(body) == IF body.speakers = Missing THEN None ELSE body.speakers[1]
GenerateOnlyOf(body) ==
    /\ Get(body.generate_only, FALSE) # None
    /\ Get(body.generate_only, FALSE)[1]

\* genai.Client() is run for this request
Constructs(route, body) ==
    /\ Admit(route, body) = None
    /\ tts_clients[client_id(ApiKeyOf(body))] = None

\* what the handlers leave alone
beside == <<inv, saved, result, threads>>

\* POST /api/tts/single, lines 51-102, up to the outbound call
post_tts_single(body, client_ok, tmp) ==
    /\ pc = "idle"
    /\ client_ok \/ Constructs("single", body)
    /\ IF Admit("single", body) # None
       THEN /\ request' = Some(Request("single", body, client_ok, None))
            /\ http' = Admit("single", body)
            /\ pc' = "done"
            /\ UNCHANGED <<env, clients, tts_clients, files, calls>>
       ELSE LET g == get_or_create_tts_client(tts_clients, clients, env,
                                              ApiKeyOf(body), client_ok)
            IN  /\ env' = g.env
                /\ clients' = g.clients
                /\ tts_clients' = g.tts_clients
                /\ IF g.error # None
                   THEN /\ request' =
                             Some(Request("single", body, client_ok, None))
                        /\ http' = Some(error_reply(g.error[1]))
                        /\ pc' = "done"
                        /\ UNCHANGED <<files, calls>>
                   ELSE /\ files[tmp] = None
                        /\ files' = NamedTemporaryFile(files, tmp)
                        /\ request' =
                             Some(Request("single", body, client_ok, Some(tmp)))
                        /\ IF ValidateSingle(VoiceOf(body)) # None
                           THEN /\ http' = Some(error_reply(
                                        ValidateSingle(VoiceOf(body))[1]))
                                /\ pc' = "done"
                                /\ UNCHANGED calls
                           ELSE /\ calls' = <<SingleRequest(
                                        g.clients[g.client], TextOf(body),
                                        VoiceOf(body), TTSModel)>>
                                /\ pc' = "calling"
                                /\ UNCHANGED http
    /\ UNCHANGED response
    /\ UNCHANGED beside

\* POST /api/tts/multi, lines 105-160, up to the outbound call
post_tts_multi(body, client_ok, tmp) ==
    /\ pc = "idle"
    /\ client_ok \/ Constructs("multi", body)
    /\ IF Admit("multi", body) # None
       THEN /\ request' = Some(Request("multi", body, client_ok, None))
            /\ http' = Admit("multi", body)
            /\ pc' = "done"
            /\ UNCHANGED <<env, clients, tts_clients, files, calls>>
       ELSE LET g == get_or_create_tts_client(tts_clients, clients, env,
                                              ApiKeyOf(body), client_ok)
            IN  /\ env' = g.env
                /\ clients' = g.clients
                /\ tts_clients' = g.tts_clients
                /\ IF g.error # None
                   THEN /\ request' =
                             Some(Request("multi", body, client_ok, None))
                        /\ http' = Some(error_reply(g.error[1]))
                        /\ pc' = "done"
                        /\ UNCHANGED <<files, calls>>
                   ELSE /\ files[tmp] = None
                        /\ files' = NamedTemporaryFile(files, tmp)
                        /\ request' =
                             Some(Request("multi", body, client_ok, Some(tmp)))
                        /\ IF ValidateMulti(SpeakersOf(body)[1]) # None
                           THEN /\ http' = Some(error_reply(
                                        ValidateMulti(SpeakersOf(body)[1])[1]))
                                /\ pc' = "done"
                                /\ UNCHANGED calls
                           ELSE /\ calls' = <<MultiRequest(
                                        g.clients[g.client], TextOf(body),
                                        SpeakersOf(body)[1], TTSModel)>>
                                /\ pc' = "calling"
                                /\ UNCHANGED http
    /\ UNCHANGED response
    /\ UNCHANGED beside

\* POST /api/generate, lines 163-224, up to the text-generation call
post_generate(body, client_ok, tmp) ==
    /\ pc = "idle"
    /\ client_ok \/ Constructs("generate", body)
    /\ IF Admit("generate", body) # None
       THEN /\ request' = Some(Request("generate", body, client_ok, None))
            /\ http' = Admit("generate", body)
            /\ pc' = "done"
            /\ UNCHANGED <<env, clients, tts_clients, files, calls>>
       ELSE LET g == get_or_create_tts_client(tts_clients, clients, env,
                                              ApiKeyOf(body), client_ok)
                p == BuildPrompt(TopicOf(body), SpeakersOf(body))
            IN  /\ env' = g.env
                /\ clients' = g.clients
                /\ tts_clients' = g.tts_clients
                /\ IF g.error # None
                   THEN /\ request' =
                             Some(Request("generate", body, client_ok, None))
                        /\ http' = Some(error_reply(g.error[1]))
                        /\ pc' = "done"
                        /\ UNCHANGED <<files, calls>>
                   ELSE /\ IF GenerateOnlyOf(body)
                           THEN /\ request' = Some(Request("generate", body,
                                                           client_ok, None))
                                /\ UNCHANGED files
                           ELSE /\ files[tmp] = None
                                /\ files' = NamedTemporaryFile(files, tmp)
                                /\ request' = Some(Request("generate", body,
                                                      client_ok, Some(tmp)))
                        /\ IF p.error # None
                           THEN /\ http' = Some(error_reply(p.error[1]))
                                /\ pc' = "done"
                                /\ UNCHANGED calls
                           ELSE /\ calls' = <<TextRequest(g.clients[g.client],
                                                          p.prompt, GenModel)>>
                                /\ pc' = "calling"
                                /\ UNCHANGED http
    /\ UNCHANGED response
    /\ UNCHANGED beside

\* POST /api/generate from the outcome of the text-generation call on:
\* generate_content lines 235-238, then lines 191-195, or
\* generate_and_speak lines 265-272 up to the synthesis call
web_generation_response(outcome) ==
    /\ pc = "calling"
    /\ request # None
    /\ calls[Len(calls)].kind = "text"
    /\ response' = Append(response, outcome)
    /\ LET body == request[1].body
           self == clients[tts_clients[client_id(ApiKeyOf(body))][1]]
           t == ExtractText(outcome.response)
       IN  IF outcome.raised
           THEN /\ http' = Some(error_reply(TransportError))
                /\ pc' = "done"
                /\ UNCHANGED calls
           ELSE IF t.error # None
           THEN /\ http' = Some(error_reply(t.error[1]))
                /\ pc' = "done"
                /\ UNCHANGED calls
           ELSE IF GenerateOnlyOf(body)
           THEN /\ http' = Some(jsonify(200, TRUE, None, None, Some(t.text)))
                /\ pc' = "done"
                /\ UNCHANGED calls
           ELSE IF TruthyDict(SpeakersOf(body))
           THEN IF ValidateMulti(SpeakersOf(body)[1]) # None
                THEN /\ http' = Some(error_reply(
                                     ValidateMulti(SpeakersOf(body)[1])[1]))
                     /\ pc' = "done"
                     /\ UNCHANGED calls
                ELSE /\ calls' = Append(calls,
                            MultiRequest(self, t.text, SpeakersOf(body)[1],
                                         TTSModel))
                     /\ pc' = "calling"
                     /\ UNCHANGED http
           ELSE IF ValidateSingle("Kore") # None
                THEN /\ http' = Some(error_reply(ValidateSingle("Kore")[1]))
                     /\ pc' = "done"
                     /\ UNCHANGED calls
                ELSE /\ calls' = Append(calls,
                            SingleRequest(self, t.text, "Kore", TTSModel))
                     /\ pc' = "calling"
                     /\ UNCHANGED http
    /\ UNCHANGED <<env, clients, tts_clients, files, request>>
    /\ UNCHANGED beside

\* the three handlers from the outcome of the synthesis call on: the core
\* unwraps and saves (gemini_tts.py lines 104-118, 176-190), the handler
\* reads the file, removes it and answers (lines 85-96, 143-154, 207-218)
web_synthesis_response(remote) ==
    /\ pc = "calling"
    /\ request # None
    /\ calls[Len(calls)].kind = "synthesis"
    /\ response' = Append(response, remote)
    /\ LET tmp == request[1].tmp[1]
           written == save_wave_file(files, tmp,
                                     Unwrap(remote.response).audio_data,
                                     DefaultChannels, DefaultRate,
                                     DefaultSampleWidth)
       IN  IF remote.raised
           THEN /\ http' = Some(error_reply(TransportError))
                /\ UNCHANGED files
           ELSE IF Unwrap(remote.response).error # None
           THEN /\ http' = Some(error_reply(Unwrap(remote.response).error[1]))
                /\ UNCHANGED files
           ELSE /\ http' = Some(jsonify(200, TRUE, None,
                                        Some(b64encode(written[tmp][1])), None))
                /\ files' = unlink(written, tmp)
    /\ pc' = "done"
    /\ UNCHANGED <<env, clients, tts_clients, calls, request>>
    /\ UNCHANGED beside

\* the response has been sent
web_return ==
    /\ pc = "done"
    /\ request # None
    /\ request' = None
    /\ http' = None
    /\ calls' = <<>>
    /\ response' = None
    /\ pc' = "idle"
    /\ UNCHANGED <<env, clients, tts_clients, files>>
    /\ UNCHANGED beside

\* the bodies the handlers are exercised with
NoObject ==
    {[json |-> j, api_key |-> Missing, text |-> Missing, voice |-> Missing,
      speakers |-> Missing, topic |-> Missing, generate_only |-> Missing] :
        j \in {"malformed", "null", "array"}}

ApiKeyMembers ==
    {Missing, Null, Given(<<" ">>), Given(<<" ", "k1", " ">>), Given(<<"k2">>)}

TextMembers == {Missing, Null, Given(<<" ", "\t">>), Given(HelloWorld)}

TopicMembers == {Missing, Given(<<" ">>), Given(<<"space exploration", " ">>)}

SingleBodies ==
    NoObject \cup
    {[json |-> "object", api_key |-> k, text |-> t, voice |-> v,
      speakers |-> Missing, topic |-> Missing, generate_only |-> Missing] :
        k \in ApiKeyMembers, t \in TextMembers,
        v \in {Missing, Given("Puck"), Given("X")}}

MultiBodies ==
    NoObject \cup
    {[json |-> "object", api_key |-> k, text |-> t, voice |-> Missing,
      speakers |-> sp, topic |-> Missing, generate_only |-> Missing] :
        k \in ApiKeyMembers, t \in TextMembers,
        sp \in {Missing, Null, Given(<<>>), Given(JaneJoe), Given(ABC)}}

GenerateBodies ==
    NoObject \cup
    {[json |-> "object", api_key |-> k, text |-> Missing, voice |-> Missing,
      speakers |-> sp, topic |-> t, generate_only |-> o] :
        k \in ApiKeyMembers, t \in TopicMembers,
        sp \in {Missing, Null, Given(JaneJoe), Given(<<Entry("Jane", "X")>>)},
        o \in {Missing, Given(TRUE)}}

\* the outcomes of the synthesis call the handlers are exercised with
WebRemoteOutcomes ==
    {[raised |-> TRUE, response |-> Response(None)],
     [raised |-> FALSE, response |-> Response(Some(<<>>))],
     [raised |-> FALSE, response |->
        Response(Some(<<Candidate(Some(Content(Some(
            <<Part(Some(Blob(Some(<<>>))))>>))))>>))],
     [raised |-> FALSE, response |->
        Response(Some(<<Candidate(Some(Content(Some(
            <<Part(Some(Blob(Some(PayloadA))))>>))))>>))]}

InitWeb ==
    /\ env \in EnvAtStart
    /\ clients = <<>>
    /\ files = [f \in TempNames |-> None]
    /\ inv = NoInv
    /\ calls = <<>>
    /\ response = None
    /\ saved = <<>>
    /\ result = NoResult
    /\ pc = "idle"
    /\ tts_clients = NoCache
    /\ request = None
    /\ http = None
    /\ threads = NoThreads

NextWeb ==
    \/ \E body \in SingleBodies, client_ok \in BOOLEAN, tmp \in TempNames :
            post_tts_single(body, client_ok, tmp)
    \/ \E body \in MultiBodies, client_ok \in BOOLEAN, tmp \in TempNames :
            post_tts_multi(body, client_ok, tmp)
    \/ \E body \in GenerateBodies, client_ok \in BOOLEAN, tmp \in TempNames :
            post_generate(body, client_ok, tmp)
    \/ \E outcome \in TextOutcomes : web_generation_response(outcome)
    \/ \E remote \in WebRemoteOutcomes : web_synthesis_response(remote)
    \/ web_return

SpecWeb == InitWeb /\ [][NextWeb]_vars

----------------------------------------------------------------------------
(* Properties.                                                             *)

\* the voice catalogue as a set
VoiceCatalog == {VOICES[i] : i \in DOMAIN VOICES}

\* the invocation failed with the invalid-voice error
InvalidVoiceRaised ==
    /\ result.status = "raised"
    /\ result.error[1].type = "ValueError"
    /\ result.error[1].msg[1] = "Voice '"

\* the invocation failed with the too-many-speakers error
TooManySpeakersRaised ==
    /\ result.status = "raised"
    /\ result.error[1] = [type |-> "ValueError",
                          msg  |-> <<"Maximum 2 speakers supported">>]

SomeVoiceUnknown(speakers) ==
    \E i \in 1..Len(speakers) : speakers[i].voice \notin VoiceCatalog

\* the invocation went on to its outbound synthesis call
CallIssued == Len(calls) = 1 /\ calls[1].kind = "synthesis"

\* the invocation ended without any outbound call
EndedWithoutCall == pc = "done" /\ calls = <<>> /\ response = None

\* C1: single_speaker_tts fails with the invalid-voice error exactly when
\* the voice is not in VOICES (exact, case-sensitive match), and
\* multi_speaker_tts with 1 or 2 entries fails with it exactly when some
\* mapped voice is not in VOICES; a failing request issues no outbound
\* call, a passing one proceeds to the outbound call.
C1_InvalidVoiceIff ==
    /\ (pc # "idle" /\ inv.op = "single_speaker_tts") =>
          /\ InvalidVoiceRaised <=> inv.voice_name \notin VoiceCatalog
          /\ inv.voice_name \notin VoiceCatalog => EndedWithoutCall
          /\ inv.voice_name \in VoiceCatalog => CallIssued
    /\ (pc # "idle" /\ inv.op = "multi_speaker_tts"
            /\ Len(inv.speakers) \in {1, 2}) =>
          /\ InvalidVoiceRaised <=> SomeVoiceUnknown(inv.speakers)
          /\ SomeVoiceUnknown(inv.speakers) => EndedWithoutCall
          /\ ~SomeVoiceUnknown(inv.speakers) => CallIssued

\* a voice that differs from a catalogue entry only in case is rejected
\* before any outbound call
C1_Witness ==
    /\ pc = "done"
    /\ inv.op = "single_speaker_tts"
    /\ inv.voice_name = "kore"
    /\ InvalidVoiceRaised
    /\ calls = <<>>

\* C2: when every mapped voice is in VOICES, multi_speaker_tts fails with
\* the too-many-speakers error if the mapping has more than 2 entries and
\* reaches the outbound synthesis call if it has 1 or 2 entries.
C2_SpeakerCount ==
    (pc # "idle" /\ inv.op = "multi_speaker_tts"
        /\ ~SomeVoiceUnknown(inv.speakers)) =>
          /\ Len(inv.speakers) > 2 => TooManySpeakersRaised /\ EndedWithoutCall
          /\ Len(inv.speakers) \in {1, 2} => CallIssued

\* three speakers with catalogue voices are turned down
C2_Witness ==
    /\ pc = "done"
    /\ inv.op = "multi_speaker_tts"
    /\ Len(inv.speakers) = 3
    /\ ~SomeVoiceUnknown(inv.speakers)
    /\ TooManySpeakersRaised

\* C3 as stated: the mapping {"A":"X","B":"Y","C":"Z"} fails with the
\* too-many-speakers error, and no outbound call is issued.
C3_TooManyReported ==
    (pc = "done" /\ inv.op = "multi_speaker_tts" /\ inv.speakers = ABC) =>
        TooManySpeakersRaised /\ EndedWithoutCall

\* C3 amended: the mapping {"A":"X","B":"Y","C":"Z"} fails with the
\* invalid-voice error naming the first entry (voice X of speaker A),
\* because the voices are validated before the entries are counted, and no
\* outbound call is issued.
C3_InvalidVoiceReported ==
    (pc = "done" /\ inv.op = "multi_speaker_tts" /\ inv.speakers = ABC) =>
        /\ InvalidVoiceRaised
        /\ result.error[1].msg[2] = "X"
        /\ result.error[1].msg[4] = "A"
        /\ EndedWithoutCall

\* the three-entry mapping of unknown voices has been submitted
C3_Witness ==
    /\ pc = "done"
    /\ inv.op = "multi_speaker_tts"
    /\ inv.speakers = ABC
    /\ result.status = "raised"

\* the two synthesis operations
SynthesisOps == {"single_speaker_tts", "multi_speaker_tts"}

\* C4 as stated: a text that is empty or only whitespace makes the
\* synthesis operation fail, and no outbound synthesis call is issued.
C4_EmptyTextRejected ==
    (pc # "idle" /\ inv.op \in SynthesisOps /\ IsBlank(inv.text)) =>
        /\ pc = "done"
        /\ result.status = "raised"
        /\ calls = <<>>

\* the remote call of a synthesis operation returned a response and the
\* operation has ended
Unwrapped ==
    /\ pc = "done"
    /\ inv.op \in SynthesisOps
    /\ response # None
    /\ ~response[1].raised

\* the shapes of a response r, by the levels of the fixed path
NoCandidates(r) == r.candidates = None \/ r.candidates[1] = <<>>

LacksContent(r) ==
    /\ ~NoCandidates(r)
    /\ r.candidates[1][1].content = None

LacksParts(r) ==
    /\ ~NoCandidates(r) /\ ~LacksContent(r)
    /\ \/ r.candidates[1][1].content[1].parts = None
       \/ r.candidates[1][1].content[1].parts[1] = <<>>

LacksInline(r) ==
    /\ ~NoCandidates(r) /\ ~LacksContent(r) /\ ~LacksParts(r)
    /\ r.candidates[1][1].content[1].parts[1][1].inline_data = None

Malformed(r) == LacksContent(r) \/ LacksParts(r) \/ LacksInline(r)

\* the data of the inline payload of the first part of the first candidate
PayloadOf(r) == r.candidates[1][1].content[1].parts[1][1].inline_data[1].data

ZeroLength(r) ==
    /\ ~NoCandidates(r) /\ ~Malformed(r)
    /\ PayloadOf(r) = None \/ Len(PayloadOf(r)[1]) = 0

WellFormed(r) ==
    /\ ~NoCandidates(r) /\ ~Malformed(r)
    /\ PayloadOf(r) # None
    /\ Len(PayloadOf(r)[1]) > 0

\* the two failures the unwrapping code raises
NoAudioFailure ==
    [type |-> "RuntimeError",
     msg  |-> <<"Failed to generate audio: No audio data in response">>]

EmptyAudioFailure ==
    [type |-> "RuntimeError",
     msg  |-> <<"Failed to generate audio: Empty audio data">>]

FailedWith(e) == result.status = "raised" /\ result.error[1] = e

\* C5 as stated: each level has a failure of its own: no candidates fails
\* with EmptyResponse, a missing content, parts or inline payload fails
\* with MalformedResponse, which a caller can tell from the other two, and
\* a zero-length payload fails with EmptyAudio.
C5_ThreeKinds ==
    Unwrapped =>
        LET r == response[1].response
        IN  /\ NoCandidates(r) => FailedWith(NoAudioFailure)
            /\ Malformed(r) =>
                  /\ result.status = "raised"
                  /\ result.error[1] \notin {NoAudioFailure, EmptyAudioFailure}
            /\ ZeroLength(r) => FailedWith(EmptyAudioFailure)
            /\ WellFormed(r) => result.status = "returned"

\* C5 amended: unwrapping has two failures: a response without candidates
\* and a response whose first candidate lacks content, parts or an inline
\* payload fail with one and the same error ("No audio data in response");
\* a payload whose data is absent or zero-length fails with a different
\* error ("Empty audio data"); every response shape falls into exactly one
\* of these two failures or succeeds.
C5_TwoKinds ==
    Unwrapped =>
        LET r == response[1].response
        IN  /\ (NoCandidates(r) \/ Malformed(r)) => FailedWith(NoAudioFailure)
            /\ ZeroLength(r) => FailedWith(EmptyAudioFailure)
            /\ WellFormed(r) => result.status = "returned"
            /\ Cardinality({k \in {"none", "malformed", "zero", "well"} :
                   \/ k = "none" /\ NoCandidates(r)
                   \/ k = "malformed" /\ Malformed(r)
                   \/ k = "zero" /\ ZeroLength(r)
                   \/ k = "well" /\ WellFormed(r)}) = 1
            /\ NoAudioFailure # EmptyAudioFailure

\* a response whose first candidate has no content was unwrapped, and it
\* failed like a response without candidates does
C5_Witness ==
    /\ Unwrapped
    /\ LacksContent(response[1].response)
    /\ FailedWith(NoAudioFailure)

\* the value of little-endian bytes
RECURSIVE FromLE(_)
FromLE(bs) == IF bs = <<>> THEN 0 ELSE bs[1] + 256 * FromLE(Tail(bs))

\* reading a file back as Wave_read does: the fmt chunk and the data chunk
ReadChannels(f) == FromLE(SubSeq(f, 23, 24))
ReadRate(f) == FromLE(SubSeq(f, 25, 28))
ReadSampleWidth(f) == (FromLE(SubSeq(f, 35, 36)) + 7) \div 8
ReadDataLength(f) == FromLE(SubSeq(f, 41, 44))
DataSection(f) == SubSeq(f, 45, 44 + ReadDataLength(f))

IsWaveFile(f) ==
    /\ Len(f) >= 44
    /\ SubSeq(f, 1, 4) = <<82, 73, 70, 70>>
    /\ SubSeq(f, 9, 16) = <<87, 65, 86, 69, 102, 109, 116, 32>>
    /\ SubSeq(f, 37, 40) = <<100, 97, 116, 97>>
    /\ Len(f) = 44 + ReadDataLength(f)

\* C6: for a well-formed response whose first part carries N > 0 bytes,
\* the synthesis operation hands exactly those bytes to save_wave_file with
\* channels=1, rate=24000, sample_width=2 and returns output_file; the file
\* declares mono, 2 bytes per sample, 24000 Hz and its data section is
\* those bytes.
C6_PayloadPersisted ==
    (Unwrapped /\ WellFormed(response[1].response)) =>
        LET payload == PayloadOf(response[1].response)[1]
        IN  /\ saved = <<[filename     |-> inv.output_file,
                          pcm_data     |-> payload,
                          channels     |-> 1,
                          rate         |-> 24000,
                          sample_width |-> 2]>>
            /\ result = [status |-> "returned",
                         value  |-> <<inv.output_file>>,
                         error  |-> <<>>]
            /\ files[inv.output_file] # None
            /\ IsWaveFile(files[inv.output_file][1])
            /\ ReadChannels(files[inv.output_file][1]) = 1
            /\ ReadRate(files[inv.output_file][1]) = 24000
            /\ ReadSampleWidth(files[inv.output_file][1]) = 2
            /\ DataSection(files[inv.output_file][1]) = payload

\* "Hello world" spoken by Kore, answered with the bytes 00 01 02 03 ahead
\* of a second part: the file holds those four bytes
C6_Witness ==
    /\ Unwrapped
    /\ inv.op = "single_speaker_tts"
    /\ inv.text = HelloWorld
    /\ inv.voice_name = "Kore"
    /\ WellFormed(response[1].response)
    /\ Len(response[1].response.candidates[1][1].content[1].parts[1]) = 2
    /\ PayloadOf(response[1].response) = <<(<<0, 1, 2, 3>>)>>
    /\ DataSection(files[inv.output_file][1]) = <<0, 1, 2, 3>>
    /\ result.status = "returned"

\* save_wave_file has been called directly
Persisted == pc = "done" /\ inv.op = "save_wave_file"

\* C7: save_wave_file(filename, B) with channels=1, rate=24000,
\* sample_width=2 leaves a file whose header reads back as 1 channel,
\* 24000 Hz, 2 bytes per sample and whose data section is B, byte for byte
\* and of the same length.
C7_RoundTrip ==
    (Persisted /\ saved[1].channels = 1 /\ saved[1].rate = 24000
        /\ saved[1].sample_width = 2) =>
        /\ files[saved[1].filename] # None
        /\ IsWaveFile(files[saved[1].filename][1])
        /\ ReadChannels(files[saved[1].filename][1]) = 1
        /\ ReadRate(files[saved[1].filename][1]) = 24000
        /\ ReadSampleWidth(files[saved[1].filename][1]) = 2
        /\ ReadDataLength(files[saved[1].filename][1]) = Len(saved[1].pcm_data)
        /\ DataSection(files[saved[1].filename][1]) = saved[1].pcm_data

\* three bytes, not a whole number of samples, written with the defaults
C7_Witness ==
    /\ Persisted
    /\ saved[1].pcm_data = <<1, 2, 3>>
    /\ saved[1].channels = 1 /\ saved[1].rate = 24000
    /\ saved[1].sample_width = 2
    /\ DataSection(files[saved[1].filename][1]) = <<1, 2, 3>>

\* the file system with no file in it
NoFiles == [f \in Filenames |-> None]

\* C8: whatever was at filename before, be it nothing, other content or
\* the file an earlier identical call left, after save_wave_file(filename,
\* B) the file is the one a single call leaves where no file existed:
\* replaced, never appended to.
C8_Overwrites ==
    Persisted =>
        files[saved[1].filename] =
            save_wave_file(NoFiles, saved[1].filename, saved[1].pcm_data,
                           saved[1].channels, saved[1].rate,
                           saved[1].sample_width)[saved[1].filename]

\* the same call made a second time: the file was there and is as it was
C8_Witness ==
    /\ Persisted
    /\ inv.before # None
    /\ Len(saved[1].pcm_data) > 0
    /\ inv.before = files[saved[1].filename]

\* C9: the multi-speaker request carries one speaker-voice entry per
\* mapping entry, pairing the speaker with its voice, in insertion order.
C9_SpeakerEntries ==
    (inv.op = "multi_speaker_tts" /\ calls # <<>>) =>
        /\ Len(calls) = 1
        /\ calls[1].voice_name = None
        /\ calls[1].speaker_voice_configs # None
        /\ Len(calls[1].speaker_voice_configs[1]) = Len(inv.speakers)
        /\ \A i \in 1..Len(inv.speakers) :
              calls[1].speaker_voice_configs[1][i] =
                  [speaker    |-> inv.speakers[i].speaker,
                   voice_name |-> inv.speakers[i].voice]

\* {"Jane": "Kore", "Joe": "Puck"} gives two entries, Jane then Joe
C9_Witness ==
    /\ inv.op = "multi_speaker_tts"
    /\ inv.speakers = JaneJoe
    /\ calls # <<>>
    /\ calls[1].speaker_voice_configs =
          <<(<<[speaker |-> "Jane", voice_name |-> "Kore"],
               [speaker |-> "Joe", voice_name |-> "Puck"]>>)>>

\* a credential that is there and not empty
NonEmptyCredential(k) == k # None /\ k[1] # ""

\* C10: constructing GeminiTTS without an api_key while the environment
\* holds no GOOGLE_API_KEY fails with the missing-credential error and
\* yields no instance; every instance holds a non-empty credential, and
\* every outbound call is made by such an instance, with that credential.
C10_CredentialFirst ==
    /\ (pc = "done" /\ inv.op = "init" /\ ~NonEmptyCredential(inv.api_key)
            /\ ~NonEmptyCredential(inv.env_before)) =>
          /\ result.status = "raised"
          /\ result.error[1].type = "ValueError"
          /\ Len(clients) = inv.instances_before
    /\ \A c \in 1..Len(clients) : NonEmptyCredential(clients[c].credential)
    /\ \A i \in 1..Len(calls) :
          /\ inv.self \in 1..Len(clients)
          /\ calls[i].credential = clients[inv.self].credential
          /\ NonEmptyCredential(calls[i].credential)

\* an instance holding the credential k1 is blocked in its outbound call
C10_Witness ==
    /\ pc = "calling"
    /\ calls # <<>>
    /\ env = <<"k1">>
    /\ calls[1].credential = <<"k1">>

\* the operations that end in a synthesis call
Speaking == {"single_speaker_tts", "multi_speaker_tts", "generate_and_speak"}

\* the outbound calls of the invocation, by kind
TextCalls == {i \in 1..Len(calls) : calls[i].kind = "text"}
SynthesisCalls == {i \in 1..Len(calls) : calls[i].kind = "synthesis"}

\* a text-generation outcome that carries no text
NoText(outcome) ==
    \/ outcome.response = None
    \/ outcome.response[1].text = None
    \/ outcome.response[1].text[1] = <<>>

\* the content-expansion step of the invocation has failed: building the
\* prompt raised, the text-generation call raised, or its response has no
\* text
ExpansionFailed ==
    \/ /\ inv.speakers_arg # None
       /\ Len(inv.speakers_arg[1]) = 1
    \/ /\ response # <<>>
       /\ calls[1].kind = "text"
       /\ response[1].raised \/ NoText(response[1])

\* C11: in generate_and_speak, when the content-expansion step fails, for
\* any reason, the operation ends with that failure, no synthesis call is
\* made and no audio file is written.
C11_ExpansionFailureAborts ==
    (pc # "idle" /\ inv.op = "generate_and_speak" /\ ExpansionFailed) =>
        /\ pc = "done"
        /\ result.status = "raised"
        /\ result.error[1] \in
              {IndexErrorRaised, TransportError, GenerationFailedError}
        /\ SynthesisCalls = {}
        /\ saved = <<>>
        /\ files[inv.output_file] = inv.before

\* the text-generation call of generate_and_speak returned a response
\* without text, and the operation raised "Failed to generate content"
C11_Witness ==
    /\ pc = "done"
    /\ inv.op = "generate_and_speak"
    /\ Len(response) = 1
    /\ ~response[1].raised
    /\ NoText(response[1])
    /\ FailedWith(GenerationFailedError)
    /\ Len(calls) = 1

\* the synthesis call of the invocation got its outcome
SynthesisReplied ==
    /\ pc = "done"
    /\ inv.op \in Speaking
    /\ calls # <<>>
    /\ calls[Len(calls)].kind = "synthesis"
    /\ Len(response) = Len(calls)

Reply == response[Len(response)]

\* a part that carries a non-empty audio payload
CarriesAudio(part) ==
    /\ part.inline_data # None
    /\ part.inline_data[1].data # None
    /\ part.inline_data[1].data[1] # <<>>

\* the parts of candidate i of r
PartsOf(r, i) ==
    IF r.candidates[1][i].content = None
          \/ r.candidates[1][i].content[1].parts = None
    THEN <<>>
    ELSE r.candidates[1][i].content[1].parts[1]

\* a candidate after the first, or a part after the first, carries audio
LaterAudio(r) ==
    /\ ~NoCandidates(r)
    /\ \E i \in 1..Len(r.candidates[1]) :
          \E j \in 1..Len(PartsOf(r, i)) :
              /\ <<i, j>> # <<1, 1>>
              /\ CarriesAudio(PartsOf(r, i)[j])

\* C15: extraction reads the first part of the first candidate only: when
\* that path is missing or empty at some level the operation fails and
\* writes nothing, also when a later candidate or part carries audio; when
\* the path is there, the bytes saved are those of the first part of the
\* first candidate, whatever the other candidates and parts contain.
C15_FirstOnly ==
    (SynthesisReplied /\ ~Reply.raised) =>
        /\ (NoCandidates(Reply.response) \/ Malformed(Reply.response)) =>
              /\ FailedWith(NoAudioFailure)
              /\ saved = <<>>
              /\ files[inv.output_file] = inv.before
        /\ ZeroLength(Reply.response) =>
              /\ FailedWith(EmptyAudioFailure)
              /\ saved = <<>>
              /\ files[inv.output_file] = inv.before
        /\ WellFormed(Reply.response) =>
              /\ result.status = "returned"
              /\ Len(saved) = 1
              /\ saved[1].pcm_data =
                    Reply.response.candidates[1][1].content[1].parts[1][1]
                        .inline_data[1].data[1]
              /\ DataSection(files[inv.output_file][1]) = saved[1].pcm_data

\* the first part has no inline payload, the second part carries audio,
\* and the operation failed with "No audio data in response"
C15_Witness ==
    /\ SynthesisReplied
    /\ ~Reply.raised
    /\ LacksInline(Reply.response)
    /\ LaterAudio(Reply.response)
    /\ Len(PartsOf(Reply.response, 1)) > 1
    /\ FailedWith(NoAudioFailure)
    /\ saved = <<>>

\* generate_content has ended
Expanded == pc = "done" /\ inv.op = "generate_content"

\* C16 as stated: generate_content issues exactly one text-generation call
\* whatever the topic and the voice assignment (absent, empty, of size 1,
\* 2 or more), with the dialogue template when the assignment is non-empty
\* and the single-speaker template otherwise; it fails only with a
\* transport failure or, exactly when the response carries no text, with
\* GenerationFailed; otherwise it returns the response text.
C16_OneCallAnyAssignment ==
    Expanded =>
        /\ Len(calls) = 1
        /\ calls[1].kind = "text"
        /\ calls[1].contents.template =
              IF inv.speakers_arg # None /\ inv.speakers_arg[1] # <<>>
              THEN "dialogue" ELSE "explanation"
        /\ Len(response) = 1
        /\ result.status = "raised" =>
              result.error[1] \in {TransportError, GenerationFailedError}
        /\ FailedWith(GenerationFailedError) <=>
              (~response[1].raised /\ NoText(response[1]))
        /\ result.status = "returned" =>
              result.value = response[1].response[1].text

\* No retries.  The outcomes of the outbound calls of the invocation that
\* are failures: the call raised, the text response has no text, or the
\* synthesis response does not unwrap.
FailedOutcome(i) ==
    \/ response[i].raised
    \/ /\ calls[i].kind = "text"
       /\ NoText(response[i])
    \/ /\ calls[i].kind = "synthesis"
       /\ ~WellFormed(response[i].response)

\* C17: single_speaker_tts and multi_speaker_tts issue at most one
\* synthesis call, generate_and_speak at most one text-generation call and
\* after it at most one synthesis call; when an outbound call fails, or its
\* response fails unwrapping, that call is the last one of the invocation
\* and the invocation has raised.
C17_NoRetries ==
    /\ Len(response) <= Len(calls)
    /\ inv.op \in {"single_speaker_tts", "multi_speaker_tts"} =>
          /\ TextCalls = {}
          /\ Cardinality(SynthesisCalls) <= 1
    /\ inv.op = "generate_and_speak" =>
          /\ Cardinality(TextCalls) <= 1
          /\ Cardinality(SynthesisCalls) <= 1
          /\ \A i \in TextCalls : \A j \in SynthesisCalls : i < j
    /\ \A i \in 1..Len(response) :
          FailedOutcome(i) =>
              /\ i = Len(calls)
              /\ pc = "done"
              /\ result.status = "raised"

\* the synthesis call of generate_and_speak raised after the
\* text-generation call had succeeded: two calls were made, no third
C17_Witness ==
    /\ inv.op = "generate_and_speak"
    /\ pc = "done"
    /\ Len(calls) = 2
    /\ Len(response) = 2
    /\ response[2].raised
    /\ FailedWith(TransportError)

\* C18: when single_speaker_tts, multi_speaker_tts or generate_and_speak
\* fails, at validation, at an outbound call or at unwrapping, the file at
\* output_file is what it was before the call (absent if it was absent);
\* the file is written only after a non-empty payload has been extracted.
C18_FileUntouchedOnFailure ==
    (pc # "idle" /\ inv.op \in Speaking) =>
        /\ (pc = "calling" \/ result.status = "raised") =>
              /\ files[inv.output_file] = inv.before
              /\ saved = <<>>
        /\ (files[inv.output_file] # inv.before \/ saved # <<>>) =>
              /\ SynthesisReplied
              /\ ~Reply.raised
              /\ WellFormed(Reply.response)
              /\ saved[1].pcm_data # <<>>
              /\ result.status = "returned"

\* a.wav was written by an earlier call; a later call on a.wav got a
\* response with an empty payload, failed, and a.wav is as it was
C18_Witness ==
    /\ SynthesisReplied
    /\ ~Reply.raised
    /\ ZeroLength(Reply.response)
    /\ result.status = "raised"
    /\ inv.before # None
    /\ files[inv.output_file] = inv.before

\* the threads whose get_or_create_tts_client(k) constructed an instance
Constructors(k) ==
    {t \in DOMAIN threads : threads[t].api_key = k /\ threads[t].self # None}

\* the threads whose get_or_create_tts_client(k) has returned
Served(k) ==
    {t \in DOMAIN threads : threads[t].api_key = k /\ threads[t].at = "returned"}

\* C12 as stated: whatever the interleaving of the requests that carry one
\* credential, at most one GeminiTTS instance is constructed for that
\* credential and all of these requests get that same instance.
C12_OneInstancePerCredential ==
    \A k \in Credentials :
        /\ Cardinality(Constructors(k)) <= 1
        /\ \A t1 \in Served(k), t2 \in Served(k) :
              threads[t1].ret = threads[t2].ret

\* C13 as stated: whatever the interleaving of requests that carry
\* different credentials, the instance cached for a credential, and the
\* instance a request gets, was constructed with the credential of that
\* request, whatever other requests wrote to GOOGLE_API_KEY meanwhile.
C13_ClientHoldsOwnCredential ==
    /\ \A k \in Credentials :
          tts_clients[client_id(k)] # None =>
              clients[tts_clients[client_id(k)][1]].credential = Some(k)
    /\ \A t \in DOMAIN threads :
          threads[t].at = "returned" =>
              clients[threads[t].ret[1]].credential = Some(threads[t].api_key)

\* a handler has answered the request
Handled == pc = "done" /\ request # None /\ http # None

\* the member that carries the text of the request
Subject(r) == IF r.route = "generate" THEN r.body.topic ELSE r.body.text

\* the body is no JSON object, or a member that must be a string is null
Unreadable(r) ==
    \/ r.body.json # "object"
    \/ r.body.api_key = Null
    \/ Subject(r) = Null

\* a member is missing, or empty, or nothing but white space
Blank(member) == member = Missing \/ IsBlank(member[1][1])

\* a required member of the request is missing
MissingRequired(r) ==
    /\ ~Unreadable(r)
    /\ \/ Blank(r.body.api_key)
       \/ Blank(Subject(r))
       \/ /\ r.route = "multi"
          /\ r.body.speakers \in {Missing, Null, Given(<<>>)}

\* the request needed a new client, and genai.Client() raised
ConstructionFailed(r) ==
    /\ ~Unreadable(r)
    /\ ~MissingRequired(r)
    /\ r.cache_before[client_id(ApiKeyOf(r.body))] = None
    /\ ~r.client_ok

\* the operation behind the request ran to its end without an error: each
\* of its outbound calls was made and answered well
Completed(r) ==
    /\ Len(response) = Len(calls)
    /\ \A i \in 1..Len(response) : ~FailedOutcome(i)
    /\ IF r.route = "generate" /\ r.body.generate_only = Given(TRUE)
       THEN Cardinality(TextCalls) = 1 /\ SynthesisCalls = {}
       ELSE Cardinality(SynthesisCalls) = 1

LiveTemp == {n \in DOMAIN files : files[n] # None}

\* C19 as stated: when no request is in flight, whether the last one ended
\* in success or in an error response, no temporary file exists.
C19_NoTempFileLeft == pc # "calling" => LiveTemp = {}

====
